---- MODULE Spec2Model ----
(***************************************************************************)
(* Model of the YahooFinance data provider                                 *)
(* (src/kaxanuk/data_curator_extensions/yahoo_finance/yahoo_finance.py).   *)
(*                                                                         *)
(* A provider instance holds two cached objects, stock_general_data (the   *)
(* yfinance.Tickers object) and stock_market_data (the frame returned by   *)
(* its history() call).  init_config fills them; the get_* operations      *)
(* normalise a per-ticker slice of them into aggregates.                   *)
(*                                                                         *)
(* Calendar dates are day ordinals inside January 2023 (day d is           *)
(* 2023-01-d), timestamps are hours (24 * day + hour of day), ISO date     *)
(* strings are tuples of decimal digits, Python dicts are sequences of     *)
(* key/value records in insertion order, and Python's None is the record   *)
(* None.                                                                   *)
(***************************************************************************)
EXTENDS FiniteSets, Integers, Sequences, TLC

VARIABLES
    upstream,            \* what the web service holds for every ticker
    stock_general_data,  \* self.stock_general_data
    stock_market_data,   \* self.stock_market_data
    fetches,             \* number of bulk history() requests sent upstream
    call,                \* the last operation called on the provider
    result               \* how that call ended: returned value or raised error

vars == <<upstream, stock_general_data, stock_market_data, fetches, call, result>>

-----------------------------------------------------------------------------
(* Bounds of the model *)

MaxDay == 2
MaxRows == 2
MaxFetches == 2

-----------------------------------------------------------------------------
(* Values *)

None == [kind |-> "None"]

Tickers == {"AAPL", "MSFT"}

Periods == {"annual"}

Days == 1 .. MaxDay

\* the timestamps of the upstream source: midnight of every day, and a
\* second stamp at noon of the first day (two stamps of one calendar date)
TimeStamps == {24 * d : d \in Days} \cup {24 + 12}

\* the errors a row constructor or the field-filling helper raises
RowFaults == {"EntityFieldTypeError", "EntityTypeError", "EntityValueError"}

Faults == {"none"} \cup RowFaults

Date(n) == [kind |-> "date", ordinal |-> n]

\* pandas.Timestamp.date(): drops the time of day
TimestampDate(timestamp) == Date(timestamp \div 24)

\* the characters of the strings the provider builds, in code-point order
Chars == <<"-", ".", "0", "1", "2", "3", "4", "5", "6", "7", "8", "9">>

CharCode(c) == CHOOSE i \in 1 .. Len(Chars) : Chars[i] = c

DigitChar(d) == Chars[d + 3]

DigitOf(c) == CharCode(c) - 3

\* datetime.date.isoformat(): the string "2023-01-DD"
IsoFormat(date) ==
    <<"2", "0", "2", "3", "-", "0", "1", "-",
      DigitChar(date.ordinal \div 10), DigitChar(date.ordinal % 10)>>

\* the date an ISO date string denotes
FromIsoFormat(iso) == Date(DigitOf(iso[9]) * 10 + DigitOf(iso[10]))

\* a < b for two Python strings
RECURSIVE StrLess(_, _)
StrLess(a, b) ==
    IF b = <<>> THEN FALSE
    ELSE IF a = <<>> THEN TRUE
    ELSE IF Head(a) # Head(b) THEN CharCode(Head(a)) < CharCode(Head(b))
    ELSE StrLess(Tail(a), Tail(b))

-----------------------------------------------------------------------------
(* Python dict: insertion-ordered, assignment to an existing key replaces   *)
(* the value in place                                                       *)

DictHas(d, k) == \E i \in 1 .. Len(d) : d[i].key = k

\* variant: dict.setdefault, an existing key keeps its value
DictSet_keep_existing(d, k, v) ==
    IF DictHas(d, k) THEN d ELSE Append(d, [key |-> k, value |-> v])

DictSet(d, k, v) ==
    IF DictHas(d, k)
    THEN [i \in 1 .. Len(d) |-> IF d[i].key = k THEN [key |-> k, value |-> v] ELSE d[i]]
    ELSE Append(d, [key |-> k, value |-> v])

-----------------------------------------------------------------------------
(* Outcomes of a call *)

\* log is the level of the message the call logged, if any
Returned(v, log) == [kind |-> "return", value |-> v, error |-> None, log |-> log]

Raised(e) == [kind |-> "raise", value |-> None, error |-> e, log |-> "none"]

\* an exception with its chain of causes (raise ... from ...)
Error(type, date, cause) == [type |-> type, date |-> date, cause |-> cause]

-----------------------------------------------------------------------------
(* The upstream source: what yfinance answers for a ticker                  *)

\* the quote the source lists at a timestamp (distinct timestamps carry
\* distinct figures, so a normalized row tells which source row built it)
QuoteAt(ts) == 100 + ts

\* one row of the history frame of a ticker; fault is what typed
\* construction of the row raises ("none": the row is well-formed)
HistoryRow(ts, fault) ==
    [ts |-> ts, Open |-> QuoteAt(ts), High |-> QuoteAt(ts) + 1,
     Low |-> QuoteAt(ts) - 1, Close |-> QuoteAt(ts), Volume |-> 10 * ts,
     fault |-> fault]

HistoryRows == {HistoryRow(ts, f) : ts \in TimeStamps, f \in Faults}

\* the payout the source lists at a timestamp, in hundredths (0.24 and
\* 0.48 at midnight of the first two days, 3.6 at noon of the first), and
\* the split ratio it lists there, a float given as a quotient of integers
\* (1.0, 1.5, 2.0, ...)
PayoutAt(ts) == IF ts % 24 = 0 THEN ts ELSE 10 * ts

SplitAt(ts) == <<ts \div 12, 2>>

DividendEntries ==
    {[ts |-> ts, value |-> PayoutAt(ts), fault |-> f] : ts \in TimeStamps, f \in Faults}

SplitEntries ==
    {[ts |-> ts, value |-> SplitAt(ts), fault |-> f] : ts \in TimeStamps, f \in Faults}

IndexOf(rows) == {rows[i].ts : i \in 1 .. Len(rows)}

\* frames of at most n rows over a unique timestamp index, in any order
RECURSIVE Frames(_, _)
Frames(rows, n) ==
    IF n = 0 THEN {<<>>}
    ELSE LET shorter == Frames(rows, n - 1)
         IN shorter \cup
            {Append(f, r) : <<f, r>> \in
                {<<f, r>> \in shorter \X rows :
                    Len(f) = n - 1 /\ r.ts \notin IndexOf(f)}}

\* a pandas Series over a DatetimeIndex in ascending order, as yfinance
\* builds the dividends and splits of a ticker
IsAscending(rows) == \A i \in 1 .. Len(rows) - 1 : rows[i].ts < rows[i + 1].ts

SeriesOver(entries, n) == {s \in Frames(entries, n) : IsAscending(s)}

DataFrame(rows) == [kind |-> "DataFrame", rows |-> rows]

\* what the source holds for one ticker
TickerSource(history, dividends, splits) ==
    [history |-> history, dividends |-> dividends, splits |-> splits]

BaselineSource ==
    TickerSource(<<HistoryRow(24, "none")>>, <<>>, <<>>)

\* the states of the source: one ticker with any data of at most n rows
\* per table, the others baseline
TickerSources(n) ==
    {TickerSource(h, <<>>, <<>>) : h \in Frames(HistoryRows, n)}
    \cup {TickerSource(<<>>, d, <<>>) : d \in SeriesOver(DividendEntries, n)}
    \cup {TickerSource(<<>>, <<>>, s) : s \in SeriesOver(SplitEntries, n)}

Upstreams(n) ==
    {[t \in Tickers |-> IF t = "AAPL" THEN src ELSE BaselineSource] :
        src \in TickerSources(n)}

\* the configurations init_config is called with
Configuration(tickers, start_date, end_date) ==
    [tickers |-> tickers, start_date |-> start_date, end_date |-> end_date]

Configurations ==
    {Configuration({"AAPL"}, Date(1), Date(MaxDay + 1)),
     Configuration({"MSFT"}, Date(MaxDay), Date(MaxDay + 1)),
     Configuration(Tickers, Date(1), Date(MaxDay + 1))}

\* yfinance.Tickers(symbols): one Ticker object per symbol, holding the
\* dividends and the splits of the symbol
YfTickers(source, symbols) ==
    [kind |-> "Tickers",
     tickers |-> [t \in symbols |->
                    [dividends |-> source[t].dividends,
                     splits |-> source[t].splits]]]

\* Tickers.history(start, end, group_by='ticker'): one column group per
\* symbol, the rows of the days from start up to but excluding end
History(source, symbols, start_iso, end_iso) ==
    [kind |-> "DataFrame",
     columns |-> [t \in symbols |->
                    SelectSeq(source[t].history,
                        LAMBDA r :
                            /\ FromIsoFormat(start_iso).ordinal
                                    <= TimestampDate(r.ts).ordinal
                            /\ TimestampDate(r.ts).ordinal
                                    < FromIsoFormat(end_iso).ordinal)]]

-----------------------------------------------------------------------------
(* Market data normalization *)

\* None as the source column of a field: the source has no such column
NoColumn == "None"

_field_correspondences_market_data_daily_rows ==
    [date |-> "Date", open |-> "Open", high |-> "High", low |-> "Low",
     close |-> "Close", adjusted_close |-> NoColumn, volume |-> "Volume",
     vwap |-> NoColumn]

\* response_dataframe.loc[timestamp] over a unique index
Loc(rows, timestamp) == rows[CHOOSE i \in 1 .. Len(rows) : rows[i].ts = timestamp]

\* date_indexed_row.to_dict() with the date column set to the ISO string
EntityFieldsRow(date_indexed_row, price_date_string) ==
    [Date |-> price_date_string, Open |-> date_indexed_row.Open,
     High |-> date_indexed_row.High, Low |-> date_indexed_row.Low,
     Close |-> date_indexed_row.Close, Volume |-> date_indexed_row.Volume]

\* entity_helper.fill_fields: each field from its source column, None
\* where there is none; the date column is read back as a date
FillFields(entity_fields_row, correspondences) ==
    [f \in DOMAIN correspondences |->
        IF correspondences[f] = NoColumn THEN None
        ELSE IF f = "date" THEN FromIsoFormat(entity_fields_row[correspondences[f]])
        ELSE entity_fields_row[correspondences[f]]]

MarketDataDailyRow(attributes) ==
    [entity |-> "MarketDataDailyRow", date |-> attributes.date,
     open |-> attributes.open, high |-> attributes.high, low |-> attributes.low,
     close |-> attributes.close, adjusted_close |-> attributes.adjusted_close,
     volume |-> attributes.volume, vwap |-> attributes.vwap]

MarketData(start_date, end_date, ticker, daily_rows) ==
    [entity |-> "MarketData", start_date |-> start_date, end_date |-> end_date,
     ticker |-> ticker, rows |-> daily_rows]

\* variant: the first row is taken for the earliest one
MinDate_first_row(min_date, price_date) ==
    IF min_date = None THEN price_date ELSE min_date

MinDate(min_date, price_date) ==
    IF min_date = None \/ price_date.ordinal < min_date.ordinal
    THEN price_date ELSE min_date

MaxDate(max_date, price_date) ==
    IF max_date = None \/ price_date.ordinal > max_date.ordinal
    THEN price_date ELSE max_date

\* the timestamps the loop walks: the index of the frame as it stands
IndexToSeries(rows) == [i \in 1 .. Len(rows) |-> rows[i].ts]

\* the loop over the timestamps from position i on: the row map and the
\* date range of the frame, or the MarketDataRowError of the first row
\* whose construction raises
RECURSIVE MarketRowsLoop(_, _, _, _, _, _)
MarketRowsLoop(rows, timestamps, i, market_data_rows, min_date, max_date) ==
    IF i > Len(timestamps)
    THEN [kind |-> "done", rows |-> market_data_rows,
          min_date |-> min_date, max_date |-> max_date]
    ELSE LET timestamp == timestamps[i]
             price_date == TimestampDate(timestamp)
             price_date_string == IsoFormat(price_date)
             date_indexed_row == Loc(rows, timestamp)
         IN IF date_indexed_row.fault \in RowFaults
            THEN [kind |-> "raise",
                  error |-> Error("MarketDataRowError", price_date_string,
                                  Error(date_indexed_row.fault, <<>>, None))]
            ELSE MarketRowsLoop(
                    rows, timestamps, i + 1,
                    DictSet(market_data_rows, price_date_string,
                            MarketDataDailyRow(FillFields(
                                EntityFieldsRow(date_indexed_row, price_date_string),
                                _field_correspondences_market_data_daily_rows))),
                    MinDate(min_date, price_date),
                    MaxDate(max_date, price_date))

\* variant: the outer except clause names MarketDataEmptyError only
_create_market_data_row_error_unwrapped(ticker, response_dataframe) ==
    IF response_dataframe = None \/ response_dataframe.rows = <<>>
    THEN Raised(Error("EntityProcessingError", <<>>,
                      Error("MarketDataEmptyError", <<>>, None)))
    ELSE LET timestamps == IndexToSeries(response_dataframe.rows)
             loop == MarketRowsLoop(response_dataframe.rows, timestamps, 1,
                                    <<>>, None, None)
         IN IF loop.kind = "raise"
            THEN Raised(loop.error)
            ELSE Returned(MarketData(loop.min_date, loop.max_date, ticker, loop.rows),
                          "none")

_create_market_data_from_response_dataframe(ticker, response_dataframe) ==
    IF response_dataframe = None \/ response_dataframe.rows = <<>>
    THEN Raised(Error("EntityProcessingError", <<>>,
                      Error("MarketDataEmptyError", <<>>, None)))
    ELSE LET timestamps == IndexToSeries(response_dataframe.rows)
             loop == MarketRowsLoop(response_dataframe.rows, timestamps, 1,
                                    <<>>, None, None)
         IN IF loop.kind = "raise"
            THEN Raised(Error("EntityProcessingError", <<>>, loop.error))
            ELSE Returned(MarketData(loop.min_date, loop.max_date, ticker, loop.rows),
                          "none")

-----------------------------------------------------------------------------
(* Dividend and split normalization *)

\* variant: the end of the slice is exclusive, as the end of history() is
SliceByDate_end_exclusive(series, start_iso, end_iso) ==
    SelectSeq(series,
        LAMBDA e :
            /\ FromIsoFormat(start_iso).ordinal <= TimestampDate(e.ts).ordinal
            /\ TimestampDate(e.ts).ordinal < FromIsoFormat(end_iso).ordinal)

\* series[start_iso:end_iso] on an ascending DatetimeIndex: the entries
\* whose day lies between the two dates the strings denote, both included
SliceByDate(series, start_iso, end_iso) ==
    SelectSeq(series,
        LAMBDA e :
            /\ FromIsoFormat(start_iso).ordinal <= TimestampDate(e.ts).ordinal
            /\ TimestampDate(e.ts).ordinal <= FromIsoFormat(end_iso).ordinal)

\* variant: the payout formatted to one decimal place
FloatStr_one_decimal(hundredths) ==
    <<DigitChar(hundredths \div 100), ".", DigitChar((hundredths % 100) \div 10)>>

\* str(dividend) of a float given in hundredths: "0.24", "1.5", "2.0"
FloatStr(hundredths) ==
    <<DigitChar(hundredths \div 100), ".", DigitChar((hundredths % 100) \div 10)>>
    \o (IF hundredths % 10 = 0 THEN <<>> ELSE <<DigitChar(hundredths % 10)>>)

\* decimal.Decimal(string): coefficient and exponent of the literal
RECURSIVE DigitsValue(_)
DigitsValue(digits) ==
    IF digits = <<>> THEN 0
    ELSE 10 * DigitsValue(SubSeq(digits, 1, Len(digits) - 1))
         + DigitOf(digits[Len(digits)])

Decimal(string) ==
    LET dot == CHOOSE i \in 1 .. Len(string) : string[i] = "."
    IN [coefficient |-> DigitsValue(SubSeq(string, 1, dot - 1)
                                     \o SubSeq(string, dot + 1, Len(string))),
        exponent |-> dot - Len(string)]

DividendDataRow(declaration_date, ex_dividend_date, record_date, payment_date, dividend, adjusted_dividend) ==
    [entity |-> "DividendDataRow", declaration_date |-> declaration_date,
     ex_dividend_date |-> ex_dividend_date, record_date |-> record_date,
     payment_date |-> payment_date, dividend |-> dividend,
     adjusted_dividend |-> adjusted_dividend]

DividendData(ticker, rows) ==
    [entity |-> "DividendData", ticker |-> ticker, rows |-> rows]

\* the loop over the sliced series from position i on
RECURSIVE DividendRowsLoop(_, _, _)
DividendRowsLoop(dividends, i, dividend_rows) ==
    IF i > Len(dividends)
    THEN [kind |-> "done", rows |-> dividend_rows]
    ELSE LET timezone_date == dividends[i].ts
             dividend == dividends[i].value
             date == TimestampDate(timezone_date)
             iteration_date == IsoFormat(date)
         IN IF dividends[i].fault \in RowFaults
            THEN [kind |-> "raise",
                  error |-> Error("DividendDataRowError", iteration_date,
                                  Error(dividends[i].fault, <<>>, None))]
            ELSE DividendRowsLoop(
                    dividends, i + 1,
                    DictSet(dividend_rows, iteration_date,
                            DividendDataRow(None, date, None, None,
                                            Decimal(FloatStr(dividend)),
                                            Decimal(FloatStr(dividend)))))

_create_dividend_data_from_response_dividends_series(ticker, dividends_series, start_date, end_date) ==
    IF dividends_series = <<>>
    THEN Raised(Error("DividendDataEmptyError", <<>>, None))
    ELSE LET dividends == SliceByDate(dividends_series, IsoFormat(start_date),
                                      IsoFormat(end_date))
             loop == DividendRowsLoop(dividends, 1, <<>>)
         IN IF loop.kind = "raise"
            THEN Raised(loop.error)
            ELSE Returned(DividendData(ticker, loop.rows), "none")

RECURSIVE Gcd(_, _)
Gcd(a, b) == IF b = 0 THEN a ELSE Gcd(b, a % b)

\* fractions.Fraction(split).limit_denominator(): the ratio in lowest terms
Fraction(split) ==
    [numerator |-> split[1] \div Gcd(split[1], split[2]),
     denominator |-> split[2] \div Gcd(split[1], split[2])]

SplitDataRow(split_date, numerator, denominator) ==
    [entity |-> "SplitDataRow", split_date |-> split_date,
     numerator |-> numerator, denominator |-> denominator]

SplitData(ticker, rows) ==
    [entity |-> "SplitData", ticker |-> ticker, rows |-> rows]

RECURSIVE SplitRowsLoop(_, _, _)
SplitRowsLoop(splits, i, split_rows) ==
    IF i > Len(splits)
    THEN [kind |-> "done", rows |-> split_rows]
    ELSE LET timezone_date == splits[i].ts
             split == splits[i].value
             date == TimestampDate(timezone_date)
             iteration_date == IsoFormat(date)
             split_fraction == Fraction(split)
         IN IF splits[i].fault \in RowFaults
            THEN [kind |-> "raise",
                  error |-> Error("SplitDataRowError", iteration_date,
                                  Error(splits[i].fault, <<>>, None))]
            ELSE SplitRowsLoop(
                    splits, i + 1,
                    DictSet(split_rows, iteration_date,
                            SplitDataRow(date, split_fraction.numerator,
                                         split_fraction.denominator)))

_create_split_data_from_response_splits_series(ticker, splits_series, start_date, end_date) ==
    IF splits_series = <<>>
    THEN Raised(Error("SplitDataEmptyError", <<>>, None))
    ELSE LET splits == SliceByDate(splits_series, IsoFormat(start_date),
                                   IsoFormat(end_date))
             loop == SplitRowsLoop(splits, 1, <<>>)
         IN IF loop.kind = "raise"
            THEN Raised(loop.error)
            ELSE Returned(SplitData(ticker, loop.rows), "none")

-----------------------------------------------------------------------------
(* The provider's operations, as functions of the cached objects *)

HasAttr(object, name) == name \in DOMAIN object

\* variant: a ticker that is no symbol of the Tickers object is reported
\* as not found instead of as having no dividends
get_dividend_data_ticker_not_found(general, ticker, start_date, end_date) ==
    IF general # None /\ ticker \notin DOMAIN general.tickers
    THEN Raised(Error("TickerNotFoundError", <<>>, None))
    ELSE IF general = None
    THEN Returned(DividendData(ticker, <<>>), "warning")
    ELSE LET made == _create_dividend_data_from_response_dividends_series(
                        ticker, general.tickers[ticker].dividends,
                        start_date, end_date)
         IN IF made.kind = "raise" /\ made.error.type = "DividendDataEmptyError"
            THEN Returned(DividendData(ticker, <<>>), "warning")
            ELSE IF made.kind = "raise" /\ made.error.type = "DividendDataRowError"
            THEN Returned(DividendData(ticker, <<>>), "error")
            ELSE made

get_dividend_data(general, ticker, start_date, end_date) ==
    IF \/ general = None
       \/ ticker \notin DOMAIN general.tickers
       \/ ~HasAttr(general.tickers[ticker], "dividends")
    THEN Returned(DividendData(ticker, <<>>), "warning")
    ELSE LET made == _create_dividend_data_from_response_dividends_series(
                        ticker, general.tickers[ticker].dividends,
                        start_date, end_date)
         IN IF made.kind = "raise" /\ made.error.type = "DividendDataEmptyError"
            THEN Returned(DividendData(ticker, <<>>), "warning")
            ELSE IF made.kind = "raise" /\ made.error.type = "DividendDataRowError"
            THEN Returned(DividendData(ticker, <<>>), "error")
            ELSE made

FundamentalData(ticker, rows) ==
    [entity |-> "FundamentalData", ticker |-> ticker, rows |-> rows]

get_fundamental_data(ticker, period, start_date, end_date) ==
    Returned(FundamentalData(ticker, <<>>), "none")

\* variant: only the unconfigured provider is checked for, a ticker that
\* is no key of the table is looked up as with dict.get
get_market_data_without_key_check(market, ticker, start_date, end_date) ==
    IF market = None
    THEN Raised(Error("TickerNotFoundError", <<>>, None))
    ELSE _create_market_data_from_response_dataframe(
            ticker,
            IF ticker \in DOMAIN market.columns
            THEN DataFrame(market.columns[ticker]) ELSE None)

get_market_data(market, ticker, start_date, end_date) ==
    IF market = None \/ ticker \notin DOMAIN market.columns
    THEN Raised(Error("TickerNotFoundError", <<>>, None))
    ELSE _create_market_data_from_response_dataframe(
            ticker, DataFrame(market.columns[ticker]))

\* variant: no except clause for SplitDataRowError
get_split_data_row_error_uncaught(general, ticker, start_date, end_date) ==
    IF \/ general = None
       \/ ticker \notin DOMAIN general.tickers
       \/ ~HasAttr(general.tickers[ticker], "splits")
    THEN Returned(SplitData(ticker, <<>>), "warning")
    ELSE LET made == _create_split_data_from_response_splits_series(
                        ticker, general.tickers[ticker].splits,
                        start_date, end_date)
         IN IF made.kind = "raise" /\ made.error.type = "SplitDataEmptyError"
            THEN Returned(SplitData(ticker, <<>>), "warning")
            ELSE made

get_split_data(general, ticker, start_date, end_date) ==
    IF \/ general = None
       \/ ticker \notin DOMAIN general.tickers
       \/ ~HasAttr(general.tickers[ticker], "splits")
    THEN Returned(SplitData(ticker, <<>>), "warning")
    ELSE LET made == _create_split_data_from_response_splits_series(
                        ticker, general.tickers[ticker].splits,
                        start_date, end_date)
         IN IF made.kind = "raise" /\ made.error.type = "SplitDataEmptyError"
            THEN Returned(SplitData(ticker, <<>>), "warning")
            ELSE IF made.kind = "raise" /\ made.error.type = "SplitDataRowError"
            THEN Returned(SplitData(ticker, <<>>), "error")
            ELSE made

validate_api_key == Returned([entity |-> "bool", value |-> TRUE], "none")

-----------------------------------------------------------------------------
(* Actions: one call of an operation on the provider instance *)

Dates == {Date(d) : d \in Days}

TickerCall(op, ticker, start_date, end_date) ==
    [op |-> op, ticker |-> ticker, start_date |-> start_date, end_date |-> end_date]

GetDividendData(ticker, start_date, end_date) ==
    /\ call' = TickerCall("get_dividend_data", ticker, start_date, end_date)
    /\ result' = get_dividend_data(stock_general_data, ticker, start_date, end_date)
    /\ UNCHANGED <<upstream, stock_general_data, stock_market_data, fetches>>

GetFundamentalData(ticker, period, start_date, end_date) ==
    /\ call' = [op |-> "get_fundamental_data", ticker |-> ticker, period |-> period,
                start_date |-> start_date, end_date |-> end_date]
    /\ result' = get_fundamental_data(ticker, period, start_date, end_date)
    /\ UNCHANGED <<upstream, stock_general_data, stock_market_data, fetches>>

\* variant: the frame is fetched on demand when none is cached
GetMarketData_fetching(ticker, start_date, end_date) ==
    /\ call' = TickerCall("get_market_data", ticker, start_date, end_date)
    /\ result' = get_market_data(stock_market_data, ticker, start_date, end_date)
    /\ IF stock_market_data = None
       THEN /\ stock_market_data' =
                    History(upstream, {ticker}, IsoFormat(start_date),
                            IsoFormat(end_date))
            /\ fetches' = fetches + 1
       ELSE UNCHANGED <<stock_market_data, fetches>>
    /\ UNCHANGED <<upstream, stock_general_data>>

GetMarketData(ticker, start_date, end_date) ==
    /\ call' = TickerCall("get_market_data", ticker, start_date, end_date)
    /\ result' = get_market_data(stock_market_data, ticker, start_date, end_date)
    /\ UNCHANGED <<upstream, stock_general_data, stock_market_data, fetches>>

GetSplitData(ticker, start_date, end_date) ==
    /\ call' = TickerCall("get_split_data", ticker, start_date, end_date)
    /\ result' = get_split_data(stock_general_data, ticker, start_date, end_date)
    /\ UNCHANGED <<upstream, stock_general_data, stock_market_data, fetches>>

\* init_config: the Tickers object is stored first, then history() sends
\* the one bulk request, which answers or raises
InitConfig(configuration) ==
    /\ fetches < MaxFetches
    /\ call' = [op |-> "init_config", configuration |-> configuration]
    /\ stock_general_data' = YfTickers(upstream, configuration.tickers)
    /\ fetches' = fetches + 1
    /\ \/ /\ stock_market_data' =
                History(upstream, configuration.tickers,
                        IsoFormat(configuration.start_date),
                        IsoFormat(configuration.end_date))
          /\ result' = Returned(None, "none")
       \/ /\ stock_market_data' = stock_market_data
          /\ result' = Raised(Error("ConnectionError", <<>>, None))
    /\ UNCHANGED upstream

ValidateApiKey ==
    /\ call' = [op |-> "validate_api_key"]
    /\ result' = validate_api_key
    /\ UNCHANGED <<upstream, stock_general_data, stock_market_data, fetches>>

\* a call of the direct normalizer on a frame, or on no frame at all
CreateMarketData(ticker, response_dataframe) ==
    /\ call' = [op |-> "_create_market_data_from_response_dataframe",
                ticker |-> ticker, response_dataframe |-> response_dataframe]
    /\ result' = _create_market_data_from_response_dataframe(ticker, response_dataframe)
    /\ UNCHANGED <<upstream, stock_general_data, stock_market_data, fetches>>

\* __init__
Fresh ==
    /\ stock_general_data = None
    /\ stock_market_data = None
    /\ fetches = 0
    /\ call = [op |-> "__init__"]
    /\ result = Returned(None, "none")

Init ==
    /\ upstream \in Upstreams(1)
    /\ Fresh

Reads ==
    \/ \E t \in Tickers, s \in Dates, e \in Dates : GetDividendData(t, s, e)
    \/ \E t \in Tickers, p \in Periods, s \in Dates, e \in Dates :
            GetFundamentalData(t, p, s, e)
    \/ \E t \in Tickers, s \in Dates, e \in Dates : GetMarketData(t, s, e)
    \/ \E t \in Tickers, s \in Dates, e \in Dates : GetSplitData(t, s, e)
    \/ ValidateApiKey
    \/ \E t \in Tickers : CreateMarketData(t, None)

Next ==
    \/ \E c \in Configurations : InitConfig(c)
    \/ Reads

Spec == Init /\ [][Next]_vars

\* the unconfigured session, and the sessions a successful init_config of
\* the first ticker leaves over every source of at most MaxRows rows per
\* table; and the calls that read them
Configured(c) ==
    /\ stock_general_data = YfTickers(upstream, c.tickers)
    /\ stock_market_data =
            History(upstream, c.tickers, IsoFormat(c.start_date), IsoFormat(c.end_date))
    /\ fetches = 1
    /\ call = [op |-> "init_config", configuration |-> c]
    /\ result = Returned(None, "none")

InitReads ==
    \/ /\ upstream \in Upstreams(0)
       /\ Fresh
    \/ /\ upstream \in Upstreams(MaxRows)
       /\ Configured(Configuration({"AAPL"}, Date(1), Date(MaxDay + 1)))

SpecReads == InitReads /\ [][Reads]_vars

-----------------------------------------------------------------------------
(* Properties *)

IsRead(c) ==
    c.op \in {"get_dividend_data", "get_fundamental_data", "get_market_data",
              "get_split_data"}

\* the ticker is a key of the cached market-data table
InMarketCache(ticker) ==
    stock_market_data # None /\ ticker \in DOMAIN stock_market_data.columns

\* the ticker is one of the symbols of the cached Tickers object
InGeneralCache(ticker) ==
    stock_general_data # None /\ ticker \in DOMAIN stock_general_data.tickers

TickerNotFound(r) ==
    r.kind = "raise" /\ r.error.type = "TickerNotFoundError" /\ r.value = None

\* C1: get_market_data raises TickerNotFoundError, and returns nothing,
\* whenever stock_market_data is None or the requested ticker is not a key
\* of the cached market-data table, whatever the ticker and the dates.
C1_TickerNotFound ==
    (call.op = "get_market_data" /\ ~InMarketCache(call.ticker))
        => TickerNotFound(result)

C1_Witness ==
    /\ call.op = "get_market_data"
    /\ stock_market_data # None
    /\ call.ticker \notin DOMAIN stock_market_data.columns
    /\ TickerNotFound(result)

Faulty(rows) == {i \in 1 .. Len(rows) : rows[i].fault \in RowFaults}

FirstFaulty(rows) == CHOOSE i \in Faulty(rows) : \A j \in Faulty(rows) : i <= j

DayOf(ts) == ts \div 24

EntityProcessing(r, cause) ==
    /\ r.kind = "raise"
    /\ r.value = None
    /\ r.error.type = "EntityProcessingError"
    /\ r.error.cause.type = cause

\* C2: for a ticker of the cached market data, get_market_data raises
\* EntityProcessingError whose cause is MarketDataEmptyError when the
\* ticker's table is absent or has no rows, and whose cause is the
\* MarketDataRowError of the failing row, carrying that row's date and the
\* error of its construction, when a row fails typed construction; no
\* aggregate is returned then, and nothing but EntityProcessingError is
\* raised by the normalization.
C2_EntityProcessing ==
    /\ (call.op = "get_market_data" /\ InMarketCache(call.ticker)) =>
        LET rows == stock_market_data.columns[call.ticker]
        IN /\ rows = <<>> => EntityProcessing(result, "MarketDataEmptyError")
           /\ Faulty(rows) # {} =>
                /\ EntityProcessing(result, "MarketDataRowError")
                /\ result.error.cause.date =
                        IsoFormat(Date(DayOf(rows[FirstFaulty(rows)].ts)))
                /\ result.error.cause.cause.type = rows[FirstFaulty(rows)].fault
           /\ result.kind = "raise" => result.error.type = "EntityProcessingError"
    /\ (call.op = "_create_market_data_from_response_dataframe"
            /\ call.response_dataframe = None)
        => EntityProcessing(result, "MarketDataEmptyError")

\* a well-formed row followed by a failing one
C2_Witness ==
    /\ call.op = "get_market_data"
    /\ InMarketCache(call.ticker)
    /\ LET rows == stock_market_data.columns[call.ticker]
       IN /\ Len(rows) >= 2
          /\ rows[1].fault = "none"
          /\ rows[2].fault \in RowFaults
    /\ EntityProcessing(result, "MarketDataRowError")

InRange(ts, start_date, end_date) ==
    start_date.ordinal <= DayOf(ts) /\ DayOf(ts) <= end_date.ordinal

\* the entries of a series that a call with the given dates normalizes
Normalized(series, start_date, end_date) ==
    {i \in 1 .. Len(series) : InRange(series[i].ts, start_date, end_date)}

CachedSeries(c) ==
    IF c.op = "get_dividend_data"
    THEN stock_general_data.tickers[c.ticker].dividends
    ELSE stock_general_data.tickers[c.ticker].splits

KeySet(rows) == {rows[i].key : i \in 1 .. Len(rows)}

\* C3: get_dividend_data and get_split_data never raise: they return an
\* aggregate of their kind for the requested ticker, whose row map is
\* empty when the provider is unconfigured, the ticker has no cached
\* series or an empty one, or a row of the requested range fails
\* normalization, and holds the dates of the normalized entries otherwise.
C3_NeverRaise ==
    call.op \in {"get_dividend_data", "get_split_data"} =>
        /\ result.kind = "return"
        /\ result.value.entity =
                (IF call.op = "get_dividend_data" THEN "DividendData" ELSE "SplitData")
        /\ result.value.ticker = call.ticker
        /\ IF ~InGeneralCache(call.ticker)
           THEN result.value.rows = <<>>
           ELSE LET series == CachedSeries(call)
                    used == Normalized(series, call.start_date, call.end_date)
                IN IF series = <<>> \/ used \cap Faulty(series) # {}
                   THEN result.value.rows = <<>>
                   ELSE KeySet(result.value.rows) =
                            {IsoFormat(Date(DayOf(series[i].ts))) : i \in used}

\* a well-formed entry was normalized before the failing one
C3_Witness ==
    /\ call.op = "get_dividend_data"
    /\ InGeneralCache(call.ticker)
    /\ LET series == CachedSeries(call)
       IN /\ Len(series) >= 2
          /\ series[1].fault = "none"
          /\ series[2].fault \in RowFaults
          /\ Normalized(series, call.start_date, call.end_date) = {1, 2}
    /\ result.kind = "return"
    /\ result.value.rows = <<>>
    /\ result.log = "error"

\* C4 as stated: a ticker that is absent from the cached session data of
\* a configured provider is reported by a raised TickerNotFoundError by
\* get_market_data, get_dividend_data and get_split_data alike.
C4_AlwaysSurfaced ==
    /\ (call.op = "get_market_data" /\ stock_market_data # None
            /\ call.ticker \notin DOMAIN stock_market_data.columns)
        => TickerNotFound(result)
    /\ (call.op \in {"get_dividend_data", "get_split_data"}
            /\ stock_general_data # None
            /\ call.ticker \notin DOMAIN stock_general_data.tickers)
        => TickerNotFound(result)

\* C4 as amended: get_market_data alone reports an absent ticker, by
\* raising TickerNotFoundError; get_dividend_data and get_split_data
\* return the empty aggregate of the ticker and log a warning.
C4_SurfacedByMarketDataOnly ==
    /\ (call.op = "get_market_data" /\ stock_market_data # None
            /\ call.ticker \notin DOMAIN stock_market_data.columns)
        => TickerNotFound(result)
    /\ (call.op \in {"get_dividend_data", "get_split_data"}
            /\ stock_general_data # None
            /\ call.ticker \notin DOMAIN stock_general_data.tickers)
        => /\ result.kind = "return"
           /\ result.value.ticker = call.ticker
           /\ result.value.rows = <<>>
           /\ result.log = "warning"

C4_Witness ==
    /\ call.op = "get_dividend_data"
    /\ stock_general_data # None
    /\ call.ticker \notin DOMAIN stock_general_data.tickers
    /\ result.kind = "return"
    /\ result.value.rows = <<>>

RowDays(rows) == {rows[i].value.date.ordinal : i \in 1 .. Len(rows)}

\* C5: the start_date and end_date of every MarketData aggregate that
\* get_market_data returns are the earliest and the latest calendar date
\* of the rows of its row map, in whatever order the cached rows stand and
\* whatever dates the call was given.
C5_RangeIsMinMax ==
    (call.op = "get_market_data" /\ result.kind = "return") =>
        LET days == RowDays(result.value.rows)
        IN /\ days # {}
           /\ result.value.start_date.ordinal \in days
           /\ result.value.end_date.ordinal \in days
           /\ \A d \in days : /\ result.value.start_date.ordinal <= d
                              /\ d <= result.value.end_date.ordinal

\* the cached rows stand in descending order and the call asks for other
\* dates than the rows have
C5_Witness ==
    /\ call.op = "get_market_data"
    /\ result.kind = "return"
    /\ LET rows == stock_market_data.columns[call.ticker]
       IN Len(rows) >= 2 /\ DayOf(rows[1].ts) > DayOf(rows[2].ts)
    /\ result.value.start_date.ordinal < result.value.end_date.ordinal
    /\ call.start_date = result.value.end_date
    /\ call.end_date = result.value.end_date

\* C6: the keys of the row map of every returned aggregate, in insertion
\* order, are strictly ascending ISO dates, and those of a MarketData
\* aggregate run from its start_date to its end_date, in whatever order
\* the source lists its rows.
C6_KeysAscending ==
    (IsRead(call) /\ result.kind = "return") =>
        LET rows == result.value.rows
        IN /\ \A i \in 1 .. Len(rows) - 1 : StrLess(rows[i].key, rows[i + 1].key)
           /\ call.op = "get_market_data" =>
                /\ rows[1].key = IsoFormat(result.value.start_date)
                /\ rows[Len(rows)].key = IsoFormat(result.value.end_date)

\* C7: after any number of init_config calls, failed ones included, the
\* two cached objects are those of one configuration: both unset, or both
\* the answer of the source to the same configuration.
C7_CacheOfOneConfiguration ==
    \/ stock_general_data = None /\ stock_market_data = None
    \/ \E c \in Configurations :
        /\ stock_general_data = YfTickers(upstream, c.tickers)
        /\ stock_market_data =
                History(upstream, c.tickers, IsoFormat(c.start_date),
                        IsoFormat(c.end_date))

\* C8: a call of get_market_data, get_dividend_data, get_split_data or
\* get_fundamental_data sends no request upstream and leaves both cached
\* objects as they are, whether it returns or raises, and a call that
\* repeats the previous one ends as the previous one did.
C8_PureReads ==
    [][IsRead(call') =>
        /\ fetches' = fetches
        /\ stock_general_data' = stock_general_data
        /\ stock_market_data' = stock_market_data
        /\ call' = call => result' = result]_vars

\* a read of a configured provider that raises
C8_Witness ==
    /\ call.op = "get_market_data"
    /\ InMarketCache(call.ticker)
    /\ fetches = 1
    /\ result.kind = "raise"

\* the value of a Decimal in hundredths
RECURSIVE Power10(_)
Power10(n) == IF n = 0 THEN 1 ELSE 10 * Power10(n - 1)

Hundredths(decimal) == decimal.coefficient * Power10(decimal.exponent + 2)

\* the entries of a series of the calendar date an ISO key names
EntriesOf(series, used, key) ==
    {i \in used : IsoFormat(Date(DayOf(series[i].ts))) = key}

\* C9: in every row of a DividendData aggregate returned by
\* get_dividend_data, dividend and adjusted_dividend are equal and are the
\* raw payout of the source entry of the row, declaration_date,
\* record_date and payment_date are None, and ex_dividend_date is the
\* calendar date of the key of the row.
C9_DividendRow ==
    (call.op = "get_dividend_data" /\ result.kind = "return") =>
        \A i \in 1 .. Len(result.value.rows) :
            LET key == result.value.rows[i].key
                row == result.value.rows[i].value
                series == CachedSeries(call)
                used == Normalized(series, call.start_date, call.end_date)
            IN /\ Hundredths(row.dividend) = Hundredths(row.adjusted_dividend)
               /\ \E j \in EntriesOf(series, used, key) :
                    Hundredths(row.dividend) = series[j].value
               /\ row.declaration_date = None
               /\ row.record_date = None
               /\ row.payment_date = None
               /\ row.ex_dividend_date.kind = "date"
               /\ IsoFormat(row.ex_dividend_date) = key

\* a payout with a single decimal and one with two decimals
C9_Witness ==
    /\ call.op = "get_dividend_data"
    /\ result.kind = "return"
    /\ Len(result.value.rows) = 2
    /\ result.value.rows[1].value.dividend.exponent = 0 - 1
    /\ result.value.rows[2].value.dividend.exponent = 0 - 2

\* the rows of the cache that a returning call normalizes
SourceRows(c) ==
    IF c.op = "get_market_data" THEN stock_market_data.columns[c.ticker]
    ELSE CachedSeries(c)

SourceUsed(c) ==
    IF c.op = "get_market_data" THEN 1 .. Len(SourceRows(c))
    ELSE Normalized(SourceRows(c), c.start_date, c.end_date)

Latest(indices) == CHOOSE i \in indices : \A j \in indices : j <= i

\* the row of an aggregate is the one its source row builds
BuiltFrom(op, row, source) ==
    IF op = "get_market_data"
    THEN /\ row.open = source.Open
         /\ row.high = source.High
         /\ row.low = source.Low
         /\ row.close = source.Close
         /\ row.volume = source.Volume
    ELSE IF op = "get_dividend_data"
    THEN Hundredths(row.dividend) = source.value
    ELSE /\ row.numerator * source.value[2] = row.denominator * source.value[1]
         /\ Gcd(row.numerator, row.denominator) = 1

\* C10: the row map of an aggregate returned by get_market_data,
\* get_dividend_data or get_split_data from rows that all normalize has
\* one entry for each calendar date of the source rows it normalized and
\* no other, and the entry of a date is the row built from the source row
\* of that date that stands last in the source.
C10_OneRowPerDate ==
    (/\ call.op \in {"get_market_data", "get_dividend_data", "get_split_data"}
     /\ result.kind = "return"
     /\ call.op # "get_market_data" =>
            /\ InGeneralCache(call.ticker)
            /\ SourceUsed(call) \cap Faulty(SourceRows(call)) = {}) =>
        LET rows == result.value.rows
            source == SourceRows(call)
            used == SourceUsed(call)
        IN /\ Cardinality(KeySet(rows)) = Len(rows)
           /\ KeySet(rows) = {IsoFormat(Date(DayOf(source[i].ts))) : i \in used}
           /\ \A i \in 1 .. Len(rows) :
                BuiltFrom(call.op, rows[i].value,
                          source[Latest(EntriesOf(source, used, rows[i].key))])

\* two cached rows of one calendar date, the one of the later timestamp
\* standing first in the source
C10_Witness ==
    /\ call.op = "get_market_data"
    /\ result.kind = "return"
    /\ LET rows == stock_market_data.columns[call.ticker]
       IN /\ Len(rows) >= 2
          /\ DayOf(rows[1].ts) = DayOf(rows[2].ts)
          /\ rows[1].ts > rows[2].ts
    /\ Len(result.value.rows) = 1

\* C11: start_date and end_date filter the dividend and split results
\* only.  The row map that get_dividend_data or get_split_data returns
\* for a cached ticker whose requested entries all normalize holds the
\* cached entries of the days from start_date to end_date, both included,
\* and no other; a series that is not empty but has no entry in the range
\* gives an empty row map with no warning logged.  get_market_data, when
\* it returns, returns a row for the date of every cached row of the
\* ticker, whatever start_date and end_date it was given.
C11_DatesFilterSeriesOnly ==
    /\ (/\ call.op \in {"get_dividend_data", "get_split_data"}
        /\ InGeneralCache(call.ticker)
        /\ SourceUsed(call) \cap Faulty(SourceRows(call)) = {}) =>
            LET series == SourceRows(call)
                rows == result.value.rows
            IN /\ result.kind = "return"
               /\ \A i \in 1 .. Len(series) :
                    InRange(series[i].ts, call.start_date, call.end_date)
                        <=> IsoFormat(Date(DayOf(series[i].ts))) \in KeySet(rows)
               /\ \A k \in KeySet(rows) :
                    \E i \in 1 .. Len(series) :
                        /\ IsoFormat(Date(DayOf(series[i].ts))) = k
                        /\ InRange(series[i].ts, call.start_date, call.end_date)
               /\ (series # <<>> /\ rows = <<>>) => result.log = "none"
    /\ (call.op = "get_market_data" /\ result.kind = "return") =>
            LET cached == stock_market_data.columns[call.ticker]
            IN KeySet(result.value.rows) =
                    {IsoFormat(Date(DayOf(cached[i].ts))) : i \in 1 .. Len(cached)}

\* a series of two days of which the call asks for the second only
C11_Witness ==
    /\ call.op = "get_split_data"
    /\ InGeneralCache(call.ticker)
    /\ LET series == SourceRows(call)
       IN /\ Len(series) = 2
          /\ DayOf(series[1].ts) < DayOf(series[2].ts)
          /\ call.start_date.ordinal = DayOf(series[2].ts)
          /\ call.end_date.ordinal = DayOf(series[2].ts)
    /\ result.kind = "return"
    /\ Len(result.value.rows) = 1
    /\ result.log = "none"

\* a series with no entry in the requested range: no row and no warning
C11_NothingInRange ==
    /\ call.op = "get_dividend_data"
    /\ InGeneralCache(call.ticker)
    /\ SourceRows(call) # <<>>
    /\ SourceUsed(call) = {}
    /\ result.kind = "return"
    /\ result.value.rows = <<>>
    /\ result.log = "none"

====
